---- MODULE Spec2Model ----
(***************************************************************************)
(* Model of prompt-api-playground: the chat repository (ChatManager), the  *)
(* durable store (StorageManager over localStorage) and the session /      *)
(* streaming logic of script.js.  Text is modelled as sequences of         *)
(* one-character strings; ids and handles as naturals, times as integers    *)
(* counted from the moment the page is loaded.                              *)
(***************************************************************************)
EXTENDS Integers, Sequences, FiniteSets, TLC

VARIABLES
  phase,              \* "loading" | "ready" | "unloaded" | "unavailable";
                      \* "closed" | "repo" where only the repository is driven
  pBound,             \* does the free identifier `p` of promptModel resolve?
  now,                \* Date.now()
  chats,              \* chatManager.chats
  activeChat,         \* chatManager.activeChat (Null for null)
  nextId,             \* next fresh chat id
  storedChats,        \* localStorage["prompt-api-chat-history"] (parsed)
  storedActive,       \* localStorage["prompt-api-active-chat"]
  sessionTemperature, \* Number(sessionTemperature.value)
  sessionTopK,        \* Number(sessionTopK.value)
  session,            \* the `session` variable of script.js (Null for null)
  handles,            \* every LanguageModel.create call, in call order
  invs,               \* every promptModel invocation, in submission order
  quota,              \* largest chat collection localStorage.setItem accepts
  call                \* outcome of the latest call made on the repository

vars == <<phase, pBound, now, chats, activeChat, nextId, storedChats,
          storedActive, sessionTemperature, sessionTopK, session, handles,
          invs, quota, call>>

----------------------------------------------------------------------------
(* Bounds of the model *)

MaxChats == 2      \* chat ids ever allocated
MaxCreates == 3    \* LanguageModel.create calls ever made
MaxPrompts == 2    \* promptModel invocations ever started
MaxChunks == 2     \* snapshots delivered per stream
MaxNow == 1        \* largest clock value
MaxTemperature == 1 \* slider maximum given by the host (params().maxTemperature)
MaxTopK == 2       \* slider maximum given by the host (params().maxTopK)
MaxStack == 3      \* nested saveChatHistory calls the call stack has room for
MaxCalls == 3      \* calls made on a repository driven on its own
MaxRandom == 2     \* values Math.random() yields for the suffix of an id
RetryQuota == 60   \* a quota that 25 conversations fit and 50 do not
MaxText == 80      \* longest run of letters in a message text titles are derived from
MaxGroup == 3      \* conversations in a collection that is grouped by age

(* Program constants *)

MAX_CHATS == 50
DefaultTemperature == 1
DefaultTopK == 3
TitleLimit == 50
TitleKeep == 47

Null == 0

\* what localStorage holds under a key when it is no JSON text of a collection:
\* nothing at all, or text that JSON.parse rejects
Absent == <<[item |-> "absent"]>>
Corrupt == <<[item |-> "corrupt"]>>

\* no quota: every write fits
NoLimit == -1

\* what localStorage holds under ACTIVE_CHAT when no id has been saved
AbsentId == -1

NewChatTitle == <<"N", "e", "w", " ", "C", "h", "a", "t">>
Ellipsis == <<".", ".", ".">>
Whitespace == {" "}
Terminators == {".", "!", "?"}

Temperatures == 0..MaxTemperature
TopKs == 1..MaxTopK

RawPrompts == { <<" ">>, <<"a", ".", " ", "b", " ">> }
Snapshots == { <<"x">>, <<"x", "y">> }

----------------------------------------------------------------------------
(* Text helpers *)

\* JavaScript a || b on numbers
OrElse(a, b) == IF a # 0 THEN a ELSE b

\* String.prototype.startsWith
StartsWith(s, pre) == Len(pre) <= Len(s) /\ SubSeq(s, 1, Len(pre)) = pre

\* String.prototype.slice(n) / substring(0, n)
Slice(s, n) == SubSeq(s, n + 1, Len(s))
Substring0(s, n) == SubSeq(s, 1, IF n < Len(s) THEN n ELSE Len(s))

RECURSIVE TrimLeft(_)
TrimLeft(s) == IF s # <<>> /\ Head(s) \in Whitespace THEN TrimLeft(Tail(s)) ELSE s

RECURSIVE TrimRight(_)
TrimRight(s) ==
  IF s # <<>> /\ s[Len(s)] \in Whitespace
  THEN TrimRight(SubSeq(s, 1, Len(s) - 1)) ELSE s

\* String.prototype.trim
Trim(s) == TrimRight(TrimLeft(s))

\* title.search(/[.!?]\s/): zero-based index of the first match, -1 if none
SearchSentenceEnd(s) ==
  LET hits == { i \in 1..(Len(s) - 1) :
                  s[i] \in Terminators /\ s[i + 1] \in Whitespace }
  IN IF hits = {} THEN -1
     ELSE (CHOOSE i \in hits : \A j \in hits : i <= j) - 1

\* mutant of generateTitle: the text is not cut at the end of a sentence
generateTitleUncut(content) ==
  LET t0 == Trim(content)
      t2 == IF Len(t0) > TitleLimit THEN Substring0(t0, TitleKeep) \o Ellipsis ELSE t0
  IN IF t2 # <<>> THEN t2 ELSE NewChatTitle

\* ChatManager.generateTitle
generateTitle(content) ==
  LET t0 == Trim(content)
      e == SearchSentenceEnd(t0)
      t1 == IF e # -1 THEN Substring0(t0, e + 1) ELSE t0
      t2 == IF Len(t1) > TitleLimit THEN Substring0(t1, TitleKeep) \o Ellipsis ELSE t1
  IN IF t2 # <<>> THEN t2 ELSE NewChatTitle

----------------------------------------------------------------------------
(* StorageManager *)

\* mutant of SortDesc: the collection is left in the order it has
SortDescKeepsOrder(cs) == cs

\* chats.sort((a, b) => b.timestamp - a.timestamp): stable, most recent first
\* (conversations of equal timestamp keep their order)
SortDesc(cs) ==
  LET order == SortSeq([i \in 1..Len(cs) |-> i],
                       LAMBDA i, j : \/ cs[i].timestamp > cs[j].timestamp
                                     \/ (cs[i].timestamp = cs[j].timestamp /\ i < j))
  IN [k \in 1..Len(cs) |-> cs[order[k]]]

\* .slice(0, MAX_CHATS)
Limit(cs, n) == SubSeq(cs, 1, IF Len(cs) < n THEN Len(cs) ELSE n)

\* the room a collection takes in the store, in units of one conversation
\* header or one message
Size(cs) ==
  Len(cs) + Cardinality(UNION { { <<i, j>> : j \in 1..Len(cs[i].messages) } :
                                i \in 1..Len(cs) })

\* localStorage.setItem(CHAT_HISTORY, ...) does not throw QuotaExceededError
Fits(payload, q) == q = NoLimit \/ Size(payload) <= q

\* StorageManager.saveChatHistory with `frames` nested calls of room left on
\* the stack: the value written under CHAT_HISTORY if an attempt succeeded, the
\* number of write attempts and of failed ones, the largest collection handed
\* to a retry, and whether the retries ran the stack out
RECURSIVE saveChatHistory(_, _, _)
saveChatHistory(cs, q, frames) ==
  LET sorted == SortDesc(cs)
      limitedChats == Limit(sorted, MAX_CHATS)
      fewer == Limit(sorted, MAX_CHATS \div 2)
  IN IF Fits(limitedChats, q)
     THEN [written |-> TRUE, value |-> limitedChats, attempts |-> 1, failures |-> 0,
           retryLen |-> 0, exhausted |-> FALSE]
     ELSE IF frames = 0
     THEN [written |-> FALSE, value |-> <<>>, attempts |-> 1, failures |-> 1,
           retryLen |-> 0, exhausted |-> TRUE]
     ELSE LET r == saveChatHistory(fewer, q, frames - 1)
          IN [r EXCEPT !.attempts = @ + 1, !.failures = @ + 1,
                       !.retryLen = IF Len(fewer) > @ THEN Len(fewer) ELSE @]

\* mutant of loadChatHistory: no catch around JSON.parse
loadChatHistoryUncaught(stored) ==
  IF stored = Absent THEN [thrown |-> FALSE, chats |-> <<>>]
  ELSE IF stored = Corrupt THEN [thrown |-> TRUE, chats |-> <<>>]
  ELSE [thrown |-> FALSE, chats |-> stored]

\* StorageManager.loadChatHistory: how it returns and what it returns
loadChatHistory(stored) ==
  IF stored = Absent THEN [thrown |-> FALSE, chats |-> <<>>]
  ELSE IF stored = Corrupt THEN [thrown |-> FALSE, chats |-> <<>>]
  ELSE [thrown |-> FALSE, chats |-> stored]

----------------------------------------------------------------------------
(* The mutable state of one page, as a record, so that handlers compose.   *)

\* quota is the store's; exhaustThrows tells how a call stack run out by
\* saveChatHistory ends (the RangeError escapes, or is caught and logged);
\* attempts, failures, retryLen, written and thrown log what the handler's
\* saves did
Cur ==
  [chats |-> chats, activeChat |-> activeChat, nextId |-> nextId,
   storedChats |-> storedChats, storedActive |-> storedActive,
   sessionTemperature |-> sessionTemperature, sessionTopK |-> sessionTopK,
   session |-> session, handles |-> handles,
   quota |-> quota, exhaustThrows |-> TRUE,
   attempts |-> 0, failures |-> 0, retryLen |-> 0, written |-> FALSE,
   thrown |-> FALSE]

Becomes(s) ==
  /\ chats' = s.chats
  /\ activeChat' = s.activeChat
  /\ nextId' = s.nextId
  /\ storedChats' = s.storedChats
  /\ storedActive' = s.storedActive
  /\ sessionTemperature' = s.sessionTemperature
  /\ sessionTopK' = s.sessionTopK
  /\ session' = s.session
  /\ handles' = s.handles

----------------------------------------------------------------------------
(* ChatManager *)

IndexOf(cs, id) ==
  IF \E i \in 1..Len(cs) : cs[i].id = id
  THEN CHOOSE i \in 1..Len(cs) : cs[i].id = id /\ \A j \in 1..(i - 1) : cs[j].id # id
  ELSE 0

\* ChatManager.getChat(id) is defined
HasChat(cs, id) == IndexOf(cs, id) # 0

\* the ids of the conversations of a collection
Ids(cs) == { cs[k].id : k \in 1..Len(cs) }

\* ChatManager.getChat (used where the chat exists)
getChat(cs, id) == cs[IndexOf(cs, id)]

\* mutant of save: the store is handed a copy, the caller's array is not sorted
saveCopy(s) ==
  LET r == saveChatHistory(s.chats, s.quota, MaxStack)
      threw == r.exhausted /\ s.exhaustThrows
  IN [s EXCEPT !.storedChats = IF r.written THEN r.value ELSE @,
               !.storedActive = IF ~threw /\ s.activeChat # Null THEN s.activeChat ELSE @,
               !.attempts = @ + r.attempts,
               !.failures = @ + r.failures,
               !.retryLen = IF r.retryLen > @ THEN r.retryLen ELSE @,
               !.written = @ \/ r.written,
               !.thrown = @ \/ threw]

\* ChatManager.save
save(s) ==
  LET r == saveChatHistory(s.chats, s.quota, MaxStack)
      threw == r.exhausted /\ s.exhaustThrows
  IN [s EXCEPT !.chats = SortDesc(s.chats),
               !.storedChats = IF r.written THEN r.value ELSE @,
               !.storedActive = IF ~threw /\ s.activeChat # Null THEN s.activeChat ELSE @,
               !.attempts = @ + r.attempts,
               !.failures = @ + r.failures,
               !.retryLen = IF r.retryLen > @ THEN r.retryLen ELSE @,
               !.written = @ \/ r.written,
               !.thrown = @ \/ threw]

\* the record built by ChatManager.createNewChat
NewChat(id, t, temperature, topK) ==
  [id |-> id, title |-> NewChatTitle, timestamp |-> t, messages |-> <<>>,
   settings |-> [temperature |-> OrElse(temperature, DefaultTemperature),
                 topK |-> OrElse(topK, DefaultTopK)]]

\* ChatManager.createNewChat
createNewChat(s, t, temperature, topK) ==
  save([s EXCEPT !.chats = <<NewChat(s.nextId, t, temperature, topK)>> \o @,
                 !.activeChat = s.nextId,
                 !.nextId = @ + 1])

\* mutant of AddedTo: the message is put in front of the earlier ones
AddedInFront(chat, role, content, t) ==
  [chat EXCEPT
     !.messages = <<[role |-> role, content |-> content, timestamp |-> t]>> \o @,
     !.timestamp = t]

\* mutant of AddedTo: the title is derived whatever the title was
AddedRetitles(chat, role, content, t) ==
  LET msgs == Append(chat.messages, [role |-> role, content |-> content, timestamp |-> t])
  IN [chat EXCEPT
        !.messages = msgs,
        !.title = IF role = "user" /\ Len(msgs) = 1
                  THEN generateTitle(content) ELSE chat.title,
        !.timestamp = t]

\* the chat after the body of ChatManager.addMessage
AddedTo(chat, role, content, t) ==
  LET msgs == Append(chat.messages, [role |-> role, content |-> content, timestamp |-> t])
  IN [chat EXCEPT
        !.messages = msgs,
        !.title = IF chat.title = NewChatTitle /\ role = "user" /\ Len(msgs) = 1
                  THEN generateTitle(content) ELSE chat.title,
        !.timestamp = t]

\* mutant of addMessage: the message goes to the active chat, not to chat id
addMessageToActive(s, id, role, content, t) ==
  IF HasChat(s.chats, s.activeChat)
  THEN save([s EXCEPT !.chats[IndexOf(s.chats, s.activeChat)] = AddedTo(@, role, content, t)])
  ELSE s

\* mutant of addMessage: the collection is not saved afterwards
addMessageUnsaved(s, id, role, content, t) ==
  IF HasChat(s.chats, id)
  THEN [s EXCEPT !.chats[IndexOf(s.chats, id)] = AddedTo(@, role, content, t)]
  ELSE s

\* mutant of addMessage: a message for a conversation that is gone goes to the
\* first conversation
addMessageElseFirst(s, id, role, content, t) ==
  IF HasChat(s.chats, id)
  THEN save([s EXCEPT !.chats[IndexOf(s.chats, id)] = AddedTo(@, role, content, t)])
  ELSE IF Len(s.chats) > 0
       THEN save([s EXCEPT !.chats[1] = AddedTo(@, role, content, t)])
       ELSE s

\* ChatManager.addMessage
addMessage(s, id, role, content, t) ==
  IF HasChat(s.chats, id)
  THEN save([s EXCEPT !.chats[IndexOf(s.chats, id)] = AddedTo(@, role, content, t)])
  ELSE s

\* ChatManager.updateChat / updateChatTitle: Object.assign(chat, { title })
updateChat(s, id, title, t) ==
  IF HasChat(s.chats, id)
  THEN save([s EXCEPT !.chats[IndexOf(s.chats, id)] =
                         [@ EXCEPT !.title = title, !.timestamp = t]])
  ELSE s

\* chats.splice(index, 1)
RemoveAt(cs, i) == SubSeq(cs, 1, i - 1) \o SubSeq(cs, i + 1, Len(cs))

\* mutant of deleteChat: the active pointer is left as it is
deleteChatKeepsActive(s, id) ==
  IF HasChat(s.chats, id)
  THEN save([s EXCEPT !.chats = RemoveAt(s.chats, IndexOf(s.chats, id))])
  ELSE s

\* ChatManager.deleteChat
deleteChat(s, id) ==
  IF HasChat(s.chats, id)
  THEN LET rest == RemoveAt(s.chats, IndexOf(s.chats, id))
       IN save([s EXCEPT !.chats = rest,
                         !.activeChat = IF @ = id
                                        THEN (IF Len(rest) > 0 THEN rest[1].id ELSE Null)
                                        ELSE @])
  ELSE s

\* mutant of setActiveChat: the id is not looked up
setActiveChatUnchecked(s, id) == [s EXCEPT !.activeChat = id, !.storedActive = id]

\* ChatManager.setActiveChat
setActiveChat(s, id) ==
  IF HasChat(s.chats, id) \/ id = Null
  THEN [s EXCEPT !.activeChat = id, !.storedActive = id]
  ELSE s

\* mutant of getActiveChat: no default when no conversation is active
getActiveChatNoDefault(s) == s

\* ChatManager.getActiveChat: its effect on the active pointer (lazy default)
getActiveChat(s) ==
  [s EXCEPT !.activeChat = IF @ = Null /\ Len(s.chats) > 0 THEN s.chats[1].id ELSE @]

\* the id of the chat ChatManager.getActiveChat returns (Null for null/undefined)
ActiveChatId(s) ==
  LET a == getActiveChat(s).activeChat
  IN IF a # Null /\ HasChat(s.chats, a) THEN a ELSE Null

\* a line of the Markdown text: what it is (heading, created, rule, label,
\* body), the text it carries and, for the created line, the time it shows
MarkdownLine(kind, text, time) == [kind |-> kind, text |-> text, time |-> time]

Rule == MarkdownLine("rule", <<"-", "-", "-">>, 0)
You == <<"*", "*", "Y", "o", "u", "*", "*">>
Assistant == <<"*", "*", "A", "s", "s", "i", "s", "t", "a", "n", "t", "*", "*">>

\* `${role}:\n\n${msg.content}\n\n---\n\n`
MessageBlock(msg) ==
  << MarkdownLine("label", IF msg.role = "user" THEN You ELSE Assistant, 0),
     MarkdownLine("body", msg.content, 0),
     Rule >>

\* chat.messages.forEach((msg) => { markdown += ... })
RECURSIVE AppendBlocks(_, _)
AppendBlocks(markdown, msgs) ==
  IF msgs = <<>> THEN markdown
  ELSE AppendBlocks(markdown \o MessageBlock(Head(msgs)), Tail(msgs))

\* mutant of exportChatAsMarkdown: the newest message comes first
exportChatAsMarkdownNewestFirst(chat) ==
  AppendBlocks(<< MarkdownLine("heading", chat.title, 0),
                  MarkdownLine("created", <<>>, chat.timestamp),
                  Rule >>,
               [k \in 1..Len(chat.messages) |-> chat.messages[Len(chat.messages) + 1 - k]])

\* ChatManager.exportChatAsMarkdown, for a conversation that exists
exportChatAsMarkdown(chat) ==
  AppendBlocks(<< MarkdownLine("heading", chat.title, 0),
                  MarkdownLine("created", <<>>, chat.timestamp),
                  Rule >>,
               chat.messages)

\* 24 * 60 * 60 * 1000 milliseconds; the clock of the model counts seconds
\* where ages are compared, every threshold being a whole number of seconds
oneDay == 24 * 60 * 60
sevenDays == 7 * oneDay
thirtyDays == 30 * oneDay

\* the keys of the groups object of getChatsByDate
GroupKeys == {"today", "yesterday", "last7days", "last30days", "older"}

\* mutant of Bucket: a conversation exactly one day old still counts as today's
BucketUpToOneDay(age) ==
  IF age <= oneDay THEN "today"
  ELSE IF age < 2 * oneDay THEN "yesterday"
  ELSE IF age < sevenDays THEN "last7days"
  ELSE IF age < thirtyDays THEN "last30days"
  ELSE "older"

\* the if / else-if chain of getChatsByDate
Bucket(age) ==
  IF age < oneDay THEN "today"
  ELSE IF age < 2 * oneDay THEN "yesterday"
  ELSE IF age < sevenDays THEN "last7days"
  ELSE IF age < thirtyDays THEN "last30days"
  ELSE "older"

\* this.chats.forEach((chat) => { ... groups.x.push(chat) })
RECURSIVE PushEach(_, _, _)
PushEach(groups, cs, t) ==
  IF cs = <<>> THEN groups
  ELSE PushEach([groups EXCEPT ![Bucket(t - Head(cs).timestamp)] = Append(@, Head(cs).id)],
                Tail(cs), t)

\* ChatManager.getChatsByDate at time t: per key, the ids of its conversations
getChatsByDate(cs, t) == PushEach([key \in GroupKeys |-> <<>>], cs, t)

----------------------------------------------------------------------------
(* script.js: session handling *)

\* mutant of destroySession: the reference is dropped, the handle not destroyed
destroySessionForgets(s) == [s EXCEPT !.session = Null]

\* mutant of destroySession: the handle is destroyed, the reference is kept
destroySessionKeepsReference(s) ==
  [s EXCEPT !.handles = IF s.session # Null
                        THEN [@ EXCEPT ![s.session].status = "destroyed"] ELSE @]

\* session?.destroy(); session = null
destroySession(s) ==
  [s EXCEPT !.handles = IF s.session # Null
                        THEN [@ EXCEPT ![s.session].status = "destroyed"] ELSE @,
            !.session = Null]

\* the options object given to LanguageModel.create by updateSession
CreateOptions(s) ==
  LET a == ActiveChatId(s)
      st == IF a # Null THEN getChat(s.chats, a).settings
            ELSE [temperature |-> 0, topK |-> 0]
  IN [temperature |-> OrElse(s.sessionTemperature, OrElse(st.temperature, DefaultTemperature)),
      topK |-> OrElse(s.sessionTopK, OrElse(st.topK, DefaultTopK))]

\* updateSession up to its await: one more LanguageModel.create call in flight;
\* waiter is the promptModel invocation awaiting it (0 for none)
updateSession(s, waiter) ==
  LET s1 == getActiveChat(s)
      o == CreateOptions(s1)
  IN [s1 EXCEPT !.handles = Append(@, [status |-> "pending",
                                      temperature |-> o.temperature,
                                      topK |-> o.topK,
                                      chat |-> ActiveChatId(s1),
                                      waiter |-> waiter])]

\* createNewChat of script.js
uiCreateNewChat(s, t) ==
  LET s1 == getActiveChat(s)
      s2 == createNewChat(s1, t, s1.sessionTemperature, s1.sessionTopK)
  IN updateSession(destroySession(s2), 0)

\* loadChat of script.js
uiLoadChat(s, id) ==
  IF ~HasChat(s.chats, id) THEN s
  ELSE LET s1 == destroySession(setActiveChat(s, id))
           st == getChat(s.chats, id).settings
           s2 == [s1 EXCEPT !.sessionTemperature = st.temperature,
                            !.sessionTopK = st.topK]
       IN updateSession(s2, 0)

\* mutant of uiDeleteChat: no new conversation follows the deletion
uiDeleteChatOnly(s, id, t) == deleteChat(s, id)

\* mutant of uiDeleteChat: a new conversation follows every deletion
uiDeleteChatThenNew(s, id, t) == uiCreateNewChat(deleteChat(s, id), t)

\* deleteChat of script.js, after the user confirmed
uiDeleteChat(s, id, t) ==
  LET wasActive == s.activeChat = id
      s1 == deleteChat(s, id)
  IN IF wasActive THEN uiCreateNewChat(s1, t) ELSE s1

\* number of LanguageModel.create calls a handler makes
CanCreate(n) == Len(handles) + n <= MaxCreates

----------------------------------------------------------------------------
(* uiManager.js: grouping of the history list *)

\* the keys of the groups object of groupChatsByDate
UiGroupKeys == {"Chats", "Yesterday", "Previous 7 days", "Previous 30 days", "Older"}

\* the if / else-if chain of groupChatsByDate
UiBucket(age) ==
  IF age < oneDay THEN "Chats"
  ELSE IF age < 2 * oneDay THEN "Yesterday"
  ELSE IF age < 7 * oneDay THEN "Previous 7 days"
  ELSE IF age < 30 * oneDay THEN "Previous 30 days"
  ELSE "Older"

\* chats.forEach((chat) => { ... groups[x].push(chat) })
RECURSIVE UiPushEach(_, _, _)
UiPushEach(groups, cs, t) ==
  IF cs = <<>> THEN groups
  ELSE UiPushEach([groups EXCEPT ![UiBucket(t - Head(cs).timestamp)] = Append(@, Head(cs).id)],
                  Tail(cs), t)

\* UIManager.groupChatsByDate(chats) at time t
groupChatsByDate(cs, t) == UiPushEach([key \in UiGroupKeys |-> <<>>], cs, t)

----------------------------------------------------------------------------
(* script.js: promptModel *)

\* a promptModel invocation: the chat captured at submission, the trimmed
\* prompt, where the invocation stands, the handle its stream runs on, and the
\* locals previousChunk / result of the stream loop; n counts the snapshots
\* read, and away records whether another chat was active when the loop ended
NewInv(chat, prompt, pc, handle) ==
  [chat |-> chat, prompt |-> prompt, pc |-> pc, handle |-> handle,
   previousChunk |-> <<>>, result |-> <<>>, n |-> 0, away |-> FALSE]

\* the catch block of promptModel: it writes the error into `p`
Caught == IF pBound THEN "error" ELSE "crashed"

\* promptModel has returned or thrown: its locals are gone
Ended(inv, pc) == [NewInv(inv.chat, inv.prompt, pc, Null) EXCEPT !.away = inv.away]

\* the page of the invocation is gone
Gone(inv) == NewInv(Null, inv.prompt, "gone", Null)

\* mutant of newChunk: the snapshot is taken for the delta
newChunkIsSnapshot(previousChunk, chunk) == chunk

\* mutant of newChunk: a snapshot that is no continuation contributes nothing
newChunkDropsRestart(previousChunk, chunk) ==
  IF StartsWith(chunk, previousChunk) THEN Slice(chunk, Len(previousChunk)) ELSE <<>>

\* one pass of the for-await body on a snapshot
newChunk(previousChunk, chunk) ==
  IF StartsWith(chunk, previousChunk) THEN Slice(chunk, Len(previousChunk)) ELSE chunk

\* mutant of FinalContent: the last snapshot instead of the running total
FinalContentLastSnapshot(inv) == inv.previousChunk

\* the text handed to chatManager.addMessage after the loop
FinalContent(inv) == inv.result

\* what LanguageModel.params() resolves to
HostParams ==
  [defaultTopK |-> MaxTopK, maxTopK |-> MaxTopK,
   defaultTemperature |-> DefaultTemperature, maxTemperature |-> MaxTemperature]

\* mutant of Running: the capability probe does not end the script
RunningUnprobed == phase \in {"ready", "unavailable"}

\* the page is up and its start-up block has run
Running == phase = "ready"

\* no call has been made on the repository
NoCall ==
  [op |-> "none", n |-> 0, arg |-> Null, returned |-> Null, value |-> <<>>,
   thrown |-> FALSE, attempts |-> 0, failures |-> 0, retryLen |-> 0,
   written |-> FALSE, failed |-> FALSE]

----------------------------------------------------------------------------
(* Initial state: the page has been loaded on an empty localStorage, the    *)
(* ChatManager is constructed, the capability probe has run.                *)

Init ==
  /\ phase \in {"loading", "unavailable"}
  /\ pBound \in BOOLEAN
  /\ now = 0
  /\ chats = <<>>
  /\ activeChat = Null
  /\ nextId = 1
  /\ storedChats = Absent
  /\ storedActive = AbsentId
  /\ sessionTemperature = HostParams.defaultTemperature
  /\ sessionTopK = HostParams.defaultTopK
  /\ session = Null
  /\ handles = <<>>
  /\ invs = <<>>
  /\ quota = NoLimit
  /\ call = NoCall

----------------------------------------------------------------------------
(* Events *)

\* time passes
Tick ==
  /\ phase \in {"loading", "ready"}
  /\ now < MaxNow
  /\ now' = now + 1
  /\ UNCHANGED <<phase, pBound, quota, call, chats, activeChat, nextId, storedChats, storedActive,
                 sessionTemperature, sessionTopK, session, handles, invs>>

\* LanguageModel.params() has resolved: the rest of the start-up block
Startup ==
  /\ phase = "loading"
  /\ CanCreate(2)
  /\ LET s0 == [Cur EXCEPT !.sessionTemperature = HostParams.defaultTemperature,
                           !.sessionTopK = OrElse(HostParams.defaultTopK, DefaultTopK)]
         lastActiveId == IF s0.activeChat # Null THEN s0.activeChat
                         ELSE IF Len(s0.chats) > 0 THEN s0.chats[1].id ELSE Null
     IN IF lastActiveId # Null
        THEN Becomes(updateSession(uiLoadChat(s0, lastActiveId), 0))
        ELSE /\ nextId <= MaxChats
             /\ Becomes(updateSession(uiCreateNewChat(s0, now), 0))
  /\ phase' = "ready"
  /\ UNCHANGED <<pBound, quota, call, now, invs>>

\* new-chat button or Cmd/Ctrl+K
NewChatEvent ==
  /\ Running
  /\ CanCreate(1)
  /\ nextId <= MaxChats
  /\ Becomes(uiCreateNewChat(Cur, now))
  /\ UNCHANGED <<phase, pBound, quota, call, now, invs>>

\* click on a chat of the history list
LoadChatEvent(id) ==
  /\ Running
  /\ CanCreate(1)
  /\ HasChat(chats, id)
  /\ Becomes(uiLoadChat(Cur, id))
  /\ UNCHANGED <<phase, pBound, quota, call, now, invs>>

\* click on a delete button, answered in the confirm dialog
DeleteChatEvent(id, confirmed) ==
  /\ Running
  /\ HasChat(chats, id)
  /\ IF confirmed
     THEN /\ (activeChat = id) => (CanCreate(1) /\ nextId <= MaxChats)
          /\ Becomes(uiDeleteChat(Cur, id, now))
     ELSE Becomes(Cur)
  /\ UNCHANGED <<phase, pBound, quota, call, now, invs>>

\* input event of the temperature slider
TemperatureInput(v) ==
  /\ Running
  /\ CanCreate(1)
  /\ v # sessionTemperature
  /\ LET s1 == getActiveChat([Cur EXCEPT !.sessionTemperature = v])
         a == ActiveChatId(s1)
         s2 == IF a # Null
               THEN save([s1 EXCEPT !.chats[IndexOf(s1.chats, a)].settings.temperature = v])
               ELSE s1
     IN Becomes(updateSession(s2, 0))
  /\ UNCHANGED <<phase, pBound, quota, call, now, invs>>

\* input event of the top-K control
TopKInput(v) ==
  /\ Running
  /\ CanCreate(1)
  /\ v # sessionTopK
  /\ LET s1 == getActiveChat([Cur EXCEPT !.sessionTopK = v])
         a == ActiveChatId(s1)
         s2 == IF a # Null
               THEN save([s1 EXCEPT !.chats[IndexOf(s1.chats, a)].settings.topK = v])
               ELSE s1
     IN Becomes(updateSession(s2, 0))
  /\ UNCHANGED <<phase, pBound, quota, call, now, invs>>

\* form submit: promptModel up to its first await
PromptSubmit(raw) ==
  /\ Running
  /\ LET prompt == Trim(raw)
     IN IF prompt = <<>>
        THEN UNCHANGED vars
        ELSE /\ Len(invs) < MaxPrompts
             /\ LET s1 == getActiveChat(Cur)
                    fresh == ActiveChatId(s1) = Null
                    s2 == IF fresh
                          THEN createNewChat(s1, now, s1.sessionTemperature, s1.sessionTopK)
                          ELSE s1
                    chat == ActiveChatId(s2)
                    s3 == addMessage(s2, chat, "user", prompt, now)
                    me == Len(invs) + 1
                IN /\ fresh => nextId <= MaxChats
                   /\ IF s3.session = Null
                      THEN /\ CanCreate(1)
                           /\ Becomes(updateSession(s3, me))
                           /\ invs' = Append(invs, NewInv(chat, prompt, "awaitSession", Null))
                      ELSE /\ Becomes(s3)
                           /\ invs' = Append(invs, NewInv(chat, prompt, "streaming", s3.session))
             /\ UNCHANGED <<phase, pBound, quota, call, now>>

\* a LanguageModel.create promise resolves: updateSession assigns `session`,
\* and a promptModel awaiting it goes on to session.promptStreaming
CreateResolve(h) ==
  /\ Running
  /\ handles[h].status = "pending"
  /\ handles' = [handles EXCEPT ![h].status = "live"]
  /\ session' = h
  /\ LET w == handles[h].waiter
     IN invs' = IF w # 0
                THEN [invs EXCEPT ![w].pc = "streaming", ![w].handle = h]
                ELSE invs
  /\ UNCHANGED <<phase, pBound, quota, call, now, chats, activeChat, nextId, storedChats,
                 storedActive, sessionTemperature, sessionTopK>>

\* a LanguageModel.create promise rejects: `session` keeps its value, and a
\* promptModel awaiting it lands in its catch block
CreateReject(h) ==
  /\ Running
  /\ handles[h].status = "pending"
  /\ handles' = [handles EXCEPT ![h].status = "failed"]
  /\ LET w == handles[h].waiter
     IN invs' = IF w # 0 THEN [invs EXCEPT ![w] = Ended(@, Caught)] ELSE invs
  /\ UNCHANGED <<phase, pBound, quota, call, now, chats, activeChat, nextId, storedChats,
                 storedActive, sessionTemperature, sessionTopK, session>>

\* the stream of invocation i delivers a snapshot
StreamChunk(i, chunk) ==
  /\ Running
  /\ invs[i].pc = "streaming"
  /\ invs[i].n < MaxChunks
  /\ LET inv == [invs[i] EXCEPT
                  !.result = @ \o newChunk(invs[i].previousChunk, chunk),
                  !.n = @ + 1]
     IN invs' = [invs EXCEPT ![i] = IF pBound
                                    THEN [inv EXCEPT !.previousChunk = chunk]
                                    ELSE Ended(inv, "crashed")]
  /\ UNCHANGED <<phase, pBound, quota, call, now, chats, activeChat, nextId, storedChats,
                 storedActive, sessionTemperature, sessionTopK, session, handles>>

\* the stream of invocation i is exhausted: the assistant message is added
StreamEnd(i) ==
  /\ Running
  /\ invs[i].pc = "streaming"
  /\ Becomes(addMessage(Cur, invs[i].chat, "assistant", FinalContent(invs[i]), now))
  /\ invs' = [invs EXCEPT
       ![i] = Ended([invs[i] EXCEPT !.away = activeChat # invs[i].chat], "done")]
  /\ UNCHANGED <<phase, pBound, quota, call, now>>

\* the stream of invocation i throws
StreamFail(i) ==
  /\ Running
  /\ invs[i].pc = "streaming"
  /\ invs' = [invs EXCEPT ![i] = Ended(@, Caught)]
  /\ UNCHANGED <<phase, pBound, quota, call, now, chats, activeChat, nextId, storedChats,
                 storedActive, sessionTemperature, sessionTopK, session, handles>>

\* the script state of a page that has been torn down
PageGone(s) ==
  [s EXCEPT !.chats = <<>>, !.activeChat = Null, !.session = Null,
            !.sessionTemperature = HostParams.defaultTemperature,
            !.sessionTopK = HostParams.defaultTopK]

\* "Clear all data", answered in the confirm dialog; the reload it ends with
\* runs the beforeunload handler
ResetEvent(confirmed) ==
  /\ phase = "ready"
  /\ IF confirmed
     THEN /\ Becomes(PageGone(save(destroySession(
                 [Cur EXCEPT !.chats = <<>>, !.activeChat = Null,
                             !.storedChats = Absent, !.storedActive = AbsentId]))))
          /\ invs' = [i \in 1..Len(invs) |-> Gone(invs[i])]
          /\ phase' = "unloaded"
     ELSE Becomes(Cur) /\ phase' = phase /\ invs' = invs
  /\ UNCHANGED <<pBound, quota, call, now>>

\* the page is closed or reloaded: the beforeunload handler runs, then the
\* page's script state is gone (the host's handles are not the page's to drop)
Unload ==
  /\ phase \in {"loading", "ready"}
  /\ Becomes(PageGone(save(Cur)))
  /\ invs' = [i \in 1..Len(invs) |-> Gone(invs[i])]
  /\ phase' = "unloaded"
  /\ UNCHANGED <<pBound, quota, call, now>>

\* the events of a page whose capability probe found no LanguageModel: the
\* script has returned before it registered any handler, the prompt input,
\* the new-chat buttons and the settings controls are disabled

\* time passes
UnavailableTick ==
  /\ phase = "unavailable"
  /\ now < MaxNow
  /\ now' = now + 1
  /\ UNCHANGED <<phase, pBound, quota, call, chats, activeChat, nextId, storedChats,
                 storedActive, sessionTemperature, sessionTopK, session, handles, invs>>

\* a click, a key or an input event on the page: no handler runs
UnavailableEvent(event) ==
  /\ phase = "unavailable"
  /\ event \in {"submit", "new-chat", "select", "delete", "settings", "reset",
                "export", "copy"}
  /\ UNCHANGED vars

\* the page is closed or reloaded: no beforeunload handler was registered
UnavailableUnload ==
  /\ phase = "unavailable"
  /\ phase' = "unloaded"
  /\ UNCHANGED <<pBound, quota, call, now, chats, activeChat, nextId, storedChats,
                 storedActive, sessionTemperature, sessionTopK, session, handles, invs>>

Next ==
  \/ Tick
  \/ UnavailableTick
  \/ \E event \in {"submit", "export"} : UnavailableEvent(event)
  \/ UnavailableUnload
  \/ Startup
  \/ NewChatEvent
  \/ \E id \in 1..MaxChats : LoadChatEvent(id)
  \/ \E id \in 1..MaxChats, confirmed \in BOOLEAN : DeleteChatEvent(id, confirmed)
  \/ \E v \in Temperatures : TemperatureInput(v)
  \/ \E v \in TopKs : TopKInput(v)
  \/ \E raw \in RawPrompts : PromptSubmit(raw)
  \/ \E h \in 1..Len(handles) : CreateResolve(h)
  \/ \E h \in 1..Len(handles) : CreateReject(h)
  \/ \E i \in 1..Len(invs), chunk \in Snapshots : StreamChunk(i, chunk)
  \/ \E i \in 1..Len(invs) : StreamEnd(i)
  \/ \E i \in 1..Len(invs) : StreamFail(i)
  \/ \E confirmed \in BOOLEAN : ResetEvent(confirmed)
  \/ Unload

Spec == Init /\ [][Next]_vars

----------------------------------------------------------------------------
(* The repository driven on its own: a ChatManager constructed on a durable *)
(* store left by earlier pages, called directly, dropped and constructed    *)
(* again; the store has a quota.                                            *)

\* a conversation saved by an earlier page, i time units before this page
StoredChat(i) ==
  [id |-> i, title |-> <<"t">>, timestamp |-> 0 - i,
   messages |-> <<[role |-> "user", content |-> <<"t">>, timestamp |-> 0 - i]>>,
   settings |-> [temperature |-> DefaultTemperature, topK |-> DefaultTopK]]

\* the collection an earlier page saved: n conversations, most recent first
Stored(n) == [i \in 1..n |-> StoredChat(i)]

StoreSizes == {1, MAX_CHATS}
InitialStores == {Absent, Corrupt} \cup { Stored(n) : n \in StoreSizes }
Quotas == {NoLimit, 0, RetryQuota}

\* the settings createNewChat is called with
RepoSettings == { [temperature |-> 0, topK |-> 1],
                  [temperature |-> MaxTemperature, topK |-> MaxTopK] }

Contents == { <<"a", ".", " ", "b">> }
Titles == { <<"T">> }
Roles == {"user", "assistant"}

\* the ids calls are made with: the first and the last conversation in memory,
\* and null, the id of no conversation
Targets(cs) == IF cs = <<>> THEN {Null} ELSE {cs[1].id, cs[Len(cs)].id, Null}

StoreInit ==
  /\ phase = "closed"
  /\ pBound = TRUE
  /\ now = 0
  /\ chats = <<>>
  /\ activeChat = Null
  /\ nextId = MAX_CHATS + 1
  /\ storedChats \in InitialStores
  /\ storedActive = AbsentId
  /\ sessionTemperature = HostParams.defaultTemperature
  /\ sessionTopK = HostParams.defaultTopK
  /\ session = Null
  /\ handles = <<>>
  /\ invs = <<>>
  /\ quota \in Quotas
  /\ call = NoCall

\* new ChatManager()
Construct ==
  /\ phase = "closed"
  /\ LET l == loadChatHistory(storedChats)
     IN /\ chats' = l.chats
        /\ phase' = IF l.thrown THEN "failed" ELSE "repo"
        /\ call' = [NoCall EXCEPT !.op = "construct", !.n = call.n, !.thrown = l.thrown,
                                  !.failed = call.failed]
  /\ activeChat' = Null
  /\ UNCHANGED <<pBound, quota, now, nextId, storedChats, storedActive,
                 sessionTemperature, sessionTopK, session, handles, invs>>

\* the page goes away without notice: the repository object is dropped
RepoClose ==
  /\ phase = "repo"
  /\ phase' = "closed"
  /\ chats' = <<>>
  /\ activeChat' = Null
  /\ call' = [NoCall EXCEPT !.n = call.n, !.failed = call.failed]
  /\ UNCHANGED <<pBound, quota, now, nextId, storedChats, storedActive,
                 sessionTemperature, sessionTopK, session, handles, invs>>

\* time passes
RepoTick ==
  /\ phase = "repo"
  /\ now < MaxNow
  /\ now' = now + 1
  /\ UNCHANGED <<phase, pBound, quota, call, chats, activeChat, nextId, storedChats,
                 storedActive, sessionTemperature, sessionTopK, session, handles, invs>>

\* one more call can be made on the repository
CanCall == phase = "repo" /\ call.n < MaxCalls

\* the repository after a call, and what the call did: the id it was given
\* (Null where it takes none), the id of the conversation it returned (Null
\* for undefined, null and false) and the value it returned where that is no
\* conversation
RepoReturns(s, op, arg, returned, value) ==
  /\ chats' = s.chats
  /\ activeChat' = s.activeChat
  /\ storedChats' = s.storedChats
  /\ storedActive' = s.storedActive
  /\ call' = [op |-> op, n |-> call.n + 1, arg |-> arg,
              returned |-> IF s.thrown THEN Null ELSE returned,
              value |-> IF s.thrown THEN <<>> ELSE value,
              thrown |-> s.thrown, attempts |-> s.attempts, failures |-> s.failures,
              retryLen |-> s.retryLen, written |-> s.written,
              failed |-> call.failed \/ s.failures > 0]
  /\ nextId' = s.nextId
  /\ UNCHANGED <<phase, pBound, quota, now, sessionTemperature, sessionTopK,
                 session, handles, invs>>

RepoBecomes(s, op, arg, returned) == RepoReturns(s, op, arg, returned, <<>>)

\* chatManager.createNewChat({ temperature, topK }), the id being one that no
\* conversation has had; e is how an exhausted stack ends
RepoCreateNewChat(settings, e) ==
  /\ CanCall
  /\ RepoBecomes(createNewChat([Cur EXCEPT !.exhaustThrows = e], now,
                               settings.temperature, settings.topK),
                 "createNewChat", Null, nextId)

\* chatManager.addMessage(id, role, content)
RepoAddMessage(id, role, content, e) ==
  /\ CanCall
  /\ RepoBecomes(addMessage([Cur EXCEPT !.exhaustThrows = e], id, role, content, now),
                 "addMessage", id, IF HasChat(chats, id) THEN id ELSE Null)

\* chatManager.updateChatTitle(id, title)
RepoUpdateChat(id, title, e) ==
  /\ CanCall
  /\ RepoBecomes(updateChat([Cur EXCEPT !.exhaustThrows = e], id, title, now),
                 "updateChat", id, IF HasChat(chats, id) THEN id ELSE Null)

\* chatManager.deleteChat(id)
RepoDeleteChat(id, e) ==
  /\ CanCall
  /\ RepoBecomes(deleteChat([Cur EXCEPT !.exhaustThrows = e], id),
                 "deleteChat", id, IF HasChat(chats, id) THEN id ELSE Null)

\* chatManager.setActiveChat(id)
RepoSetActiveChat(id) ==
  /\ CanCall
  /\ RepoBecomes(setActiveChat(Cur, id), "setActiveChat", id,
                 IF HasChat(chats, id) \/ id = Null THEN id ELSE Null)

\* chatManager.getActiveChat()
RepoGetActiveChat ==
  /\ CanCall
  /\ RepoBecomes(getActiveChat(Cur), "getActiveChat", Null, ActiveChatId(Cur))

StoreNext ==
  \/ Construct
  \/ RepoClose
  \/ RepoTick
  \/ \E settings \in RepoSettings, e \in BOOLEAN : RepoCreateNewChat(settings, e)
  \/ \E id \in Targets(chats), role \in Roles, content \in Contents, e \in BOOLEAN :
       RepoAddMessage(id, role, content, e)
  \/ \E id \in Targets(chats), title \in Titles, e \in BOOLEAN : RepoUpdateChat(id, title, e)
  \/ \E id \in Targets(chats), e \in BOOLEAN : RepoDeleteChat(id, e)
  \/ \E id \in Targets(chats) : RepoSetActiveChat(id)
  \/ RepoGetActiveChat

StoreSpec == StoreInit /\ [][StoreNext]_vars

----------------------------------------------------------------------------
(* The repository with the id generator of createNewChat spelled out: the   *)
(* id is made of the clock and of a value of Math.random().                 *)

\* the values Math.random().toString(36).substr(2, 9) yields
Randoms == 0..(MaxRandom - 1)

\* `chat-${Date.now()}-${Math.random()...}`: the id made at time t with random
\* suffix r, apart from the ids of the conversations found in the store
ChatId(t, r) == (MAX_CHATS + 1) * (t + 1) + r

IdInit ==
  /\ StoreInit
  /\ storedChats \in {Absent, Stored(1)}
  /\ quota = NoLimit

\* chatManager.createNewChat({ temperature, topK }) with random suffix r
RepoCreateRandomId(settings, r) ==
  /\ CanCall
  /\ LET s0 == [Cur EXCEPT !.nextId = ChatId(now, r)]
         s1 == createNewChat(s0, now, settings.temperature, settings.topK)
     IN RepoBecomes([s1 EXCEPT !.nextId = nextId], "createNewChat", Null, ChatId(now, r))

IdNext ==
  \/ Construct
  \/ RepoClose
  \/ RepoTick
  \/ \E settings \in RepoSettings, r \in Randoms : RepoCreateRandomId(settings, r)
  \/ \E id \in Targets(chats), role \in Roles, content \in Contents :
       RepoAddMessage(id, role, content, TRUE)
  \/ \E id \in Targets(chats) : RepoDeleteChat(id, TRUE)
  \/ \E id \in Targets(chats) : RepoSetActiveChat(id)

IdSpec == IdInit /\ [][IdNext]_vars

----------------------------------------------------------------------------
(* The repository with its reading operations, the export and copy buttons  *)
(* and the start-up block of the page, over restarts from the store.        *)

\* the ids calls are made with: as Targets, and an id no conversation has
ViewTargets(cs) == Targets(cs) \cup {nextId}

ViewInit ==
  /\ phase = "closed"
  /\ pBound = TRUE
  /\ now = 0
  /\ chats = <<>>
  /\ activeChat = Null
  /\ nextId = MAX_CHATS + 1
  /\ storedChats \in {Absent, Stored(2)}
  /\ storedActive = AbsentId
  /\ sessionTemperature = HostParams.defaultTemperature
  /\ sessionTopK = HostParams.defaultTopK
  /\ session = Null
  /\ handles = <<>>
  /\ invs = <<>>
  /\ quota = NoLimit
  /\ call = NoCall

\* the start-up block of script.js on the repository just constructed:
\* "Load last active chat or create first one", then updateSession
RepoStartup ==
  /\ phase = "repo"
  /\ call.op = "construct"
  /\ CanCall
  /\ LET s0 == [Cur EXCEPT !.sessionTemperature = HostParams.defaultTemperature,
                           !.sessionTopK = OrElse(HostParams.defaultTopK, DefaultTopK)]
         lastActiveId == IF s0.activeChat # Null THEN s0.activeChat
                         ELSE IF Len(s0.chats) > 0 THEN s0.chats[1].id ELSE Null
         s1 == IF lastActiveId # Null
               THEN updateSession(uiLoadChat(s0, lastActiveId), 0)
               ELSE updateSession(uiCreateNewChat(s0, now), 0)
     IN /\ Becomes(s1)
        /\ call' = [NoCall EXCEPT !.op = "startup", !.n = call.n + 1,
                                  !.returned = s1.activeChat, !.written = s1.written,
                                  !.failed = call.failed]
  /\ UNCHANGED <<phase, pBound, quota, now, invs>>

\* chatManager.getChat(id)
RepoGetChat(id) ==
  /\ CanCall
  /\ RepoBecomes(Cur, "getChat", id, IF HasChat(chats, id) THEN id ELSE Null)

\* chatManager.exportChatAsMarkdown(id)
RepoExportChatAsMarkdown(id) ==
  /\ CanCall
  /\ IF HasChat(chats, id)
     THEN RepoReturns(Cur, "exportChatAsMarkdown", id, id,
                      exportChatAsMarkdown(getChat(chats, id)))
     ELSE RepoReturns(Cur, "exportChatAsMarkdown", id, Null, <<>>)

\* click on the export button: the text put into the Blob that is downloaded
\* (nothing is exported, and an alert shown, when no conversation is active)
ExportClick ==
  /\ CanCall
  /\ LET s1 == getActiveChat(Cur)
         a == ActiveChatId(Cur)
     IN IF a = Null
        THEN RepoReturns(s1, "exportClick", Null, Null, <<>>)
        ELSE RepoReturns(s1, "exportClick", Null, a,
                         exportChatAsMarkdown(getChat(s1.chats, a)))

\* click on the copy button: the text given to navigator.clipboard.writeText
CopyClick ==
  /\ CanCall
  /\ LET s1 == getActiveChat(Cur)
         a == ActiveChatId(Cur)
     IN IF a = Null
        THEN RepoReturns(s1, "copyClick", Null, Null, <<>>)
        ELSE RepoReturns(s1, "copyClick", Null, a,
                         exportChatAsMarkdown(getChat(s1.chats, a)))

ViewNext ==
  \/ Construct
  \/ RepoClose
  \/ RepoTick
  \/ RepoStartup
  \/ \E settings \in RepoSettings : RepoCreateNewChat(settings, TRUE)
  \/ \E id \in ViewTargets(chats), role \in Roles, content \in Contents :
       RepoAddMessage(id, role, content, TRUE)
  \/ \E id \in ViewTargets(chats), title \in Titles : RepoUpdateChat(id, title, TRUE)
  \/ \E id \in ViewTargets(chats) : RepoDeleteChat(id, TRUE)
  \/ \E id \in ViewTargets(chats) : RepoSetActiveChat(id)
  \/ RepoGetActiveChat
  \/ \E id \in ViewTargets(chats) : RepoGetChat(id)
  \/ \E id \in ViewTargets(chats) : RepoExportChatAsMarkdown(id)
  \/ ExportClick
  \/ CopyClick

ViewSpec == ViewInit /\ [][ViewNext]_vars

----------------------------------------------------------------------------
(* The repository constructed on collections of conversations of many ages, *)
(* grouped for display by the repository and by the history list.           *)

\* the time of the page, late enough for conversations older than 30 days
GroupNow == 40 * oneDay

\* ages on both sides of every threshold, and the age of a conversation
\* touched by a clock that was ahead
Ages == {-1, 0, oneDay - 1, oneDay, 2 * oneDay - 1, 2 * oneDay,
         sevenDays - 1, sevenDays, thirtyDays - 1, thirtyDays}

\* the conversation saved by an earlier page with id i, touched `age` ago
AgedChat(i, age) == [StoredChat(i) EXCEPT !.timestamp = GroupNow - age]

\* the collections an earlier page saved: most recently touched first
AgedStores ==
  UNION { { [i \in 1..n |-> AgedChat(i, ages[i])] :
              ages \in { f \in [1..n -> Ages] : \A i \in 1..(n - 1) : f[i] <= f[i + 1] } } :
          n \in 0..MaxGroup }

GroupInit ==
  /\ phase = "closed"
  /\ pBound = TRUE
  /\ now = GroupNow
  /\ chats = <<>>
  /\ activeChat = Null
  /\ nextId = MAX_CHATS + 1
  /\ storedChats \in AgedStores
  /\ storedActive = AbsentId
  /\ sessionTemperature = HostParams.defaultTemperature
  /\ sessionTopK = HostParams.defaultTopK
  /\ session = Null
  /\ handles = <<>>
  /\ invs = <<>>
  /\ quota = NoLimit
  /\ call = NoCall

\* chatManager.getChatsByDate()
RepoGetChatsByDate ==
  /\ CanCall
  /\ RepoReturns(Cur, "getChatsByDate", Null, Null, getChatsByDate(chats, now))

\* renderChatHistory without a search filter:
\* this.groupChatsByDate(this.chatManager.getAllChats())
UiGroupChatsByDate ==
  /\ CanCall
  /\ chats # <<>>
  /\ RepoReturns(Cur, "groupChatsByDate", Null, Null, groupChatsByDate(chats, now))

GroupNext ==
  \/ Construct
  \/ RepoGetChatsByDate
  \/ UiGroupChatsByDate

GroupSpec == GroupInit /\ [][GroupNext]_vars

----------------------------------------------------------------------------
(* The repository given first messages of many shapes, for the titles       *)
(* addMessage derives from them.                                            *)

\* n times the character c
Rep(c, n) == [i \in 1..n |-> c]

HelloText == <<"H", "e", "l", "l", "o", ".", " ", "H", "o", "w", " ", "a", "r", "e", " ", "y", "o", "u", "?">>

\* what a text starts with and ends with, around a run of letters
TextHeads == { <<>>, <<" ">>, <<"a", ".", " ">>, <<"a", ".", "b", "?", " ">> }
TextTails == { <<>>, <<" ">>, <<".">>, <<"!", " ", "b">>, <<".", "b">>, <<" ", "?", " ">> }

\* the message texts: "", blank text, texts with and without sentence ends,
\* padded or not, from 0 to more than 80 characters long
TitleTexts ==
  {HelloText} \cup
  { head \o Rep("a", n) \o tail : head \in TextHeads, n \in 0..MaxText, tail \in TextTails }

TitleInit ==
  /\ StoreInit
  /\ storedChats = Absent
  /\ quota = NoLimit

\* chatManager.addMessage(id, "user", content) on the conversation just
\* created, which has no message yet
RepoAddFirstMessage(content) ==
  /\ chats # <<>>
  /\ chats[1].messages = <<>>
  /\ RepoAddMessage(chats[1].id, "user", content, TRUE)

TitleNext ==
  \/ Construct
  \/ \E settings \in RepoSettings : RepoCreateNewChat(settings, TRUE)
  \/ \E content \in TitleTexts : RepoAddFirstMessage(content)

TitleSpec == TitleInit /\ [][TitleNext]_vars

----------------------------------------------------------------------------
(* The page loaded on a store that holds two conversations of an earlier   *)
(* page: conversations are selected and deleted, prompts are sent.          *)

ReloadInit ==
  /\ phase = "loading"
  /\ pBound \in BOOLEAN
  /\ now = 0
  /\ chats = Stored(2)
  /\ activeChat = Null
  /\ nextId = 3
  /\ storedChats = Stored(2)
  /\ storedActive \in {1, 2}
  /\ sessionTemperature = HostParams.defaultTemperature
  /\ sessionTopK = HostParams.defaultTopK
  /\ session = Null
  /\ handles = <<>>
  /\ invs = <<>>
  /\ quota = NoLimit
  /\ call = NoCall

\* click on a delete button, answered in the confirm dialog (the number of
\* conversations ever created is bounded by the number of create calls)
DeleteChatClick(id, confirmed) ==
  /\ Running
  /\ HasChat(chats, id)
  /\ IF confirmed
     THEN /\ (activeChat = id) => CanCreate(1)
          /\ Becomes(uiDeleteChat(Cur, id, now))
     ELSE Becomes(Cur)
  /\ UNCHANGED <<phase, pBound, quota, call, now, invs>>

ReloadNext ==
  \/ Tick
  \/ Startup
  \/ \E id \in Ids(chats) : LoadChatEvent(id)
  \/ \E id \in Ids(chats), confirmed \in BOOLEAN : DeleteChatClick(id, confirmed)
  \/ \E raw \in RawPrompts : PromptSubmit(raw)
  \/ \E h \in 1..Len(handles) : CreateResolve(h)
  \/ \E h \in 1..Len(handles) : CreateReject(h)
  \/ \E i \in 1..Len(invs), chunk \in Snapshots : StreamChunk(i, chunk)
  \/ \E i \in 1..Len(invs) : StreamEnd(i)
  \/ \E i \in 1..Len(invs) : StreamFail(i)
  \/ Unload

ReloadSpec == ReloadInit /\ [][ReloadNext]_vars

----------------------------------------------------------------------------
(* Properties of the session handling *)

Handles == 1..Len(handles)
Invs == 1..Len(invs)

\* handles that have been created and not destroyed
LiveHandles == { h \in Handles : handles[h].status = "live" }

\* the create calls made by the step
NewHandles == (Len(handles) + 1)..Len(handles')

\* the handles the step destroys
DestroyedNow ==
  { h \in Handles : handles[h].status # "destroyed" /\ handles'[h].status = "destroyed" }

\* the step starts the stream of invocation i (session.promptStreaming)
StartsStream(i) ==
  /\ invs'[i].pc = "streaming"
  /\ i \in Invs => invs[i].pc # "streaming"

\* C1: in every reachable state at most one session handle has been created
\* and not yet destroyed.
C1_AtMostOneLiveHandle == Cardinality(LiveHandles) <= 1

\* C2: every prompt is sent on a handle that was created while the chat
\* receiving the prompt was active, with the temperature and topK that chat's
\* settings hold when the prompt is sent.
C2_PromptOnMatchingHandle ==
  [][\A i \in 1..Len(invs') :
       (StartsStream(i) /\ HasChat(chats', invs'[i].chat)) =>
         LET h == handles'[invs'[i].handle]
             st == getChat(chats', invs'[i].chat).settings
         IN /\ h.chat = invs'[i].chat
            /\ h.temperature = st.temperature
            /\ h.topK = st.topK]_vars

\* C3: whenever a session is created for the active chat, the temperature and
\* topK passed to the host equal the settings stored in that chat at that
\* instant, for every value of the allowed range.
C3_CreateUsesStoredSettings ==
  [][\A h \in NewHandles :
       handles'[h].chat # Null =>
         LET st == getChat(chats', handles'[h].chat).settings
         IN /\ handles'[h].temperature = st.temperature
            /\ handles'[h].topK = st.topK]_vars

\* C4: a session requested twice in a row for the same active chat with
\* unchanged temperature and topK: the second request creates no handle (the
\* first request's handle being still pending or live).
C4_SecondRequestIsNoOp ==
  [][\A k \in NewHandles :
       ~ /\ k > 1
         /\ handles'[k - 1].status \in {"pending", "live"}
         /\ handles'[k - 1].chat # Null
         /\ handles'[k - 1].chat = handles'[k].chat
         /\ handles'[k - 1].temperature = handles'[k].temperature
         /\ handles'[k - 1].topK = handles'[k].topK
         /\ (k - 1 \in Handles) =>
              /\ HasChat(chats, handles'[k].chat)
              /\ getChat(chats', handles'[k].chat).settings
                   = getChat(chats, handles'[k].chat).settings]_vars

\* the step changes temperature or topK of the chat that is and stays active
ChangesActiveSettings ==
  /\ activeChat # Null
  /\ activeChat' = activeChat
  /\ HasChat(chats, activeChat)
  /\ HasChat(chats', activeChat)
  /\ getChat(chats', activeChat).settings # getChat(chats, activeChat).settings

\* C5: when topK or temperature of the active chat is changed while a session
\* is live, exactly one handle is destroyed, the previously live one, and
\* exactly one is created, with the new settings.
C5_SettingsChangeReplaces ==
  [][(ChangesActiveSettings /\ session # Null) =>
       /\ DestroyedNow = {session}
       /\ Cardinality(NewHandles) = 1
       /\ \A h \in NewHandles :
            /\ handles'[h].temperature = getChat(chats', activeChat).settings.temperature
            /\ handles'[h].topK = getChat(chats', activeChat).settings.topK]_vars

\* C6: when the host fails to create a session, the script holds no handle
\* afterwards.
C6_FailureLeavesNoSession ==
  [][\A h \in Handles :
       (handles[h].status = "pending" /\ handles'[h].status = "failed") =>
         session' = Null]_vars

\* a step of one of the events that leave the active chat or the page
SwitchOrReset ==
  \/ NewChatEvent
  \/ \E id \in 1..MaxChats : LoadChatEvent(id)
  \/ \E id \in 1..MaxChats : activeChat = id /\ DeleteChatEvent(id, TRUE)
  \/ ResetEvent(TRUE)

C8_OneStreamPerHandle ==
  \A i, j \in Invs :
    (i # j /\ invs[i].pc = "streaming" /\ invs[j].pc = "streaming") =>
      invs[i].handle # invs[j].handle

\* the step in which the stream loop of invocation i ends normally
EndsStream(i) == invs[i].pc = "streaming" /\ invs'[i].pc = "done"

\* the assistant message promptModel adds for invocation inv
AssistantMessage(inv) ==
  [role |-> "assistant", content |-> inv.result, timestamp |-> now]

\* id and messages of every chat
MessagesOf(cs) == { <<cs[k].id, cs[k].messages>> : k \in 1..Len(cs) }

\* all chats but chat c
Others(cs, c) == { cs[k] : k \in { j \in 1..Len(cs) : cs[j].id # c } }

\* C9 as stated: if another chat has become active before the stream is
\* exhausted, the accumulated text is appended to no chat.
C9_AbandonedStreamDiscarded ==
  [][\A i \in Invs :
       (EndsStream(i) /\ activeChat # invs[i].chat) =>
         MessagesOf(chats') = MessagesOf(chats)]_vars

\* C9 amended: if another chat has become active before the stream is
\* exhausted, the accumulated text is not discarded: it becomes one more
\* assistant message of the chat the prompt was submitted in, if that chat still
\* exists, and no other chat (the active one included) changes; if the chat was
\* deleted nothing is appended anywhere.
C9_AbandonedStreamGoesToItsChat ==
  [][\A i \in Invs :
       (EndsStream(i) /\ activeChat # invs[i].chat) =>
         LET c == invs[i].chat
         IN /\ Others(chats', c) = Others(chats, c)
            /\ activeChat' = activeChat
            /\ IF HasChat(chats, c)
               THEN /\ HasChat(chats', c)
                    /\ Len(getChat(chats', c).messages) = Len(getChat(chats, c).messages) + 1
                    /\ SubSeq(getChat(chats', c).messages, 1, Len(getChat(chats, c).messages))
                         = getChat(chats, c).messages
                    /\ getChat(chats', c).messages[Len(getChat(chats', c).messages)].role
                         = "assistant"
               ELSE chats' = chats]_vars

\* a stream that ended after the user had moved to another chat has left its
\* text in the chat of the prompt
C9_Witness ==
  \E i \in Invs :
    /\ invs[i].pc = "done"
    /\ invs[i].away
    /\ HasChat(chats, invs[i].chat)
    /\ activeChat # invs[i].chat
    /\ LET m == getChat(chats, invs[i].chat).messages
       IN m[Len(m)].role = "assistant" /\ m[Len(m)].content # <<>>

----------------------------------------------------------------------------
(* Properties of the stream loop *)

\* the step in which promptModel leaves the stream of invocation i through an
\* exception (the stream throws, or the loop body does)
FailsStream(i) ==
  invs[i].pc = "streaming" /\ invs'[i].pc \in {"error", "crashed"}

\* C11: if the stream fails after zero or more snapshots, no assistant message
\* is appended to any chat, the persisted collection stays what it was, the
\* error is reported (the catch block completes) and the page keeps running.
C11_StreamFailureReportedNoTrace ==
  [][\A i \in Invs :
       FailsStream(i) =>
         /\ chats' = chats
         /\ storedChats' = storedChats
         /\ invs'[i].pc = "error"
         /\ phase' = "ready"]_vars

\* the step in which invocation i reads one more snapshot and stays in the loop
ReadsSnapshot(i) ==
  /\ invs[i].pc = "streaming"
  /\ invs'[i].pc = "streaming"
  /\ invs'[i].n = invs[i].n + 1

\* C12: over snapshots each of which has the previous one as a prefix, the
\* deltas add up to the last snapshot after every step: the running total is
\* empty before the first snapshot, each delta is the part of the snapshot
\* beyond the previous one, the running total equals the snapshot just read,
\* and the content appended at the end of the stream is the last snapshot.
C12_DeltasAddUpToSnapshot ==
  [][\A i \in 1..Len(invs') :
       /\ StartsStream(i) =>
            (invs'[i].result = <<>> /\ invs'[i].previousChunk = <<>>)
       /\ (/\ i \in Invs
           /\ ReadsSnapshot(i)
           /\ invs[i].result = invs[i].previousChunk
           /\ StartsWith(invs'[i].previousChunk, invs[i].previousChunk)) =>
            /\ invs'[i].result =
                 invs[i].result \o Slice(invs'[i].previousChunk, Len(invs[i].previousChunk))
            /\ invs'[i].result = invs'[i].previousChunk
       /\ (/\ i \in Invs
           /\ EndsStream(i)
           /\ invs[i].result = invs[i].previousChunk
           /\ HasChat(chats, invs[i].chat)) =>
            LET m == getChat(chats', invs[i].chat).messages
            IN m[Len(m)].content = invs[i].previousChunk]_vars

\* two snapshots have been read, the second extending the first (or equal to
\* it), and the running total is the second snapshot
C12_Witness ==
  \E i \in Invs :
    /\ invs[i].pc = "streaming"
    /\ invs[i].n = 2
    /\ invs[i].previousChunk = <<"x", "y">>
    /\ invs[i].result = <<"x", "y">>

\* C13: when a snapshot does not start with the previously seen snapshot, the
\* delta is the whole snapshot: the running total becomes the old total
\* followed by the snapshot, the previously seen snapshot becomes the new one,
\* and the loop goes on without an error.
C13_NonPrefixSnapshotIsWholeDelta ==
  [][\A i \in Invs, chunk \in Snapshots :
       (StreamChunk(i, chunk) /\ ~StartsWith(chunk, invs[i].previousChunk)) =>
         /\ invs'[i].pc = "streaming"
         /\ invs'[i].result = invs[i].result \o chunk
         /\ invs'[i].previousChunk = chunk]_vars

\* snapshot "x" has arrived after snapshot "xy": the running total is "xyx"
C13_Witness ==
  \E i \in Invs :
    /\ invs[i].pc = "streaming"
    /\ invs[i].previousChunk = <<"x">>
    /\ invs[i].result = <<"x", "y", "x">>

----------------------------------------------------------------------------
(* Properties of the repository and the store, checked under StoreSpec *)

\* the conversations of a collection
Range(cs) == { cs[k] : k \in 1..Len(cs) }

IsSortedDesc(cs) ==
  \A i \in 1..(Len(cs) - 1) : cs[i].timestamp >= cs[i + 1].timestamp

\* the step is a call made on the repository
RepoCall == call'.n = call.n + 1

\* C14: after any save that writes the chat collection (on the first attempt
\* or on a retry after a quota error), the persisted collection holds at most
\* 50 conversations, and every conversation of the repository left out of it
\* was touched no later than every conversation kept.
C14_StoreKeepsMostRecent ==
  [][(RepoCall /\ call'.written) =>
       /\ Len(storedChats') <= MAX_CHATS
       /\ \A c \in Range(chats') \ Range(storedChats') :
            \A k \in Range(storedChats') : c.timestamp <= k.timestamp]_vars

\* the repository holds 51 conversations, the store the 50 most recent of
\* them; the one left out is the oldest
C14_Witness ==
  /\ phase = "repo"
  /\ call.written
  /\ Len(chats) = MAX_CHATS + 1
  /\ storedChats = SubSeq(chats, 1, MAX_CHATS)
  /\ chats[MAX_CHATS + 1].timestamp < chats[MAX_CHATS].timestamp

\* C15: when writing the collection fails with a quota error, saveChatHistory
\* makes exactly one further attempt, with at most 25 conversations, and if
\* that fails too it returns without throwing and without a further attempt.
C15_OneRetryThenGiveUp ==
  /\ call.attempts <= 2
  /\ call.failures >= 1 => (call.attempts = 2 /\ call.retryLen <= MAX_CHATS \div 2)
  /\ ~call.thrown

\* C16: loading the chat collection never throws: with nothing saved or with
\* stored text that cannot be parsed the repository starts empty, otherwise it
\* starts with the collection that was last saved.
C16_LoadNeverThrows ==
  [][(phase = "closed" /\ phase' # "closed") =>
       /\ ~call'.thrown
       /\ phase' = "repo"
       /\ chats' = IF storedChats = Absent \/ storedChats = Corrupt
                   THEN <<>> ELSE storedChats]_vars

\* a repository has been constructed on a store whose text does not parse
C16_Witness ==
  /\ phase = "repo"
  /\ call.op = "construct"
  /\ storedChats = Corrupt
  /\ chats = <<>>

MutatingOps == {"createNewChat", "addMessage", "updateChat", "deleteChat"}

\* C17: after createNewChat, addMessage, updateChat or deleteChat completes
\* without a storage failure (no write attempt of the call failed, and if the
\* call wrote nothing, none had failed before), a repository constructed from
\* the store holds the (at most 50) most recently touched conversations of the
\* one in memory, each exactly as it is in memory.
C17_StoreMirrorsMemory ==
  [][(/\ RepoCall
      /\ call'.op \in MutatingOps
      /\ call'.failures = 0
      /\ ~call'.thrown
      /\ call'.written \/ ~call'.failed) =>
       /\ IsSortedDesc(chats')
       /\ ~loadChatHistory(storedChats').thrown
       /\ loadChatHistory(storedChats').chats = Limit(chats', MAX_CHATS)]_vars

\* a repository constructed on the store holds a conversation that an earlier
\* repository created and saved
C17_Witness ==
  /\ phase = "repo"
  /\ call.op = "construct"
  /\ chats = storedChats
  /\ \E k \in 1..Len(chats) : chats[k].id > MAX_CHATS /\ chats[k].messages # <<>>

C19_DistinctIdsAndActive ==
  /\ \A i, j \in 1..Len(chats) : i # j => chats[i].id # chats[j].id
  /\ (call.op = "createNewChat" /\ ~call.thrown) => activeChat = call.returned

\* C20: after createNewChat(settings) returns, the new conversation has no
\* messages, its temperature and topK are the given ones, it is the first
\* element of the collection in memory and it is in the persisted collection.
C20_CreateStoresGivenSettings ==
  [][\A settings \in RepoSettings, e \in BOOLEAN :
       (RepoCreateNewChat(settings, e) /\ ~call'.thrown) =>
         /\ chats'[1].id = nextId
         /\ chats'[1].messages = <<>>
         /\ chats'[1].settings = settings
         /\ storedChats' # Absent /\ storedChats' # Corrupt
         /\ chats'[1] \in Range(storedChats')]_vars

----------------------------------------------------------------------------
(* Properties of deleteChat and of the title, checked under StoreSpec *)

\* the step is deleteChat called with the id of a conversation that exists
DeletesChat == RepoCall /\ call'.op = "deleteChat" /\ HasChat(chats, call'.arg)

\* the conversations other than id, in collection order
Remaining(cs, id) == SelectSeq(cs, LAMBDA c : c.id # id)

\* what deleteChat does in memory: the conversation is gone, and if it was
\* the active one the pointer moves to the first remaining conversation, or to
\* none
DeleteInMemory(id) ==
  /\ ~HasChat(chats', id)
  /\ activeChat = id =>
       /\ Remaining(chats, id) # <<>> =>
            activeChat' = Remaining(chats, id)[1].id /\ activeChat' = chats'[1].id
       /\ Remaining(chats, id) = <<>> => activeChat' = Null

\* C21: deleteChat of the active conversation sets the active pointer to the
\* first remaining conversation, or to none when it was the last one; the
\* deleted conversation is absent from the collection in memory and from the
\* persisted collection afterwards.
C21_DeleteMovesActiveAndPersists ==
  [][DeletesChat =>
       /\ DeleteInMemory(call'.arg)
       /\ ~HasChat(loadChatHistory(storedChats').chats, call'.arg)]_vars

\* C21, amended: as C21, the deleted conversation being absent from the
\* persisted collection when a write attempt of the save succeeded; when
\* every attempt failed on the quota the persisted collection is the one of
\* before.
C21_DeleteMovesActivePersistsIfWritten ==
  [][DeletesChat =>
       /\ DeleteInMemory(call'.arg)
       /\ IF call'.written
          THEN ~HasChat(loadChatHistory(storedChats').chats, call'.arg)
          ELSE storedChats' = storedChats]_vars

\* the conversation created by the first call, active since, has been
\* deleted by the second, and the pointer is on the first of the others
C21_Witness ==
  /\ call.op = "deleteChat"
  /\ call.n = 2
  /\ call.arg = MAX_CHATS + 1
  /\ call.written
  /\ Len(chats) >= 1
  /\ activeChat = chats[1].id
  /\ ~HasChat(storedChats, call.arg)

\* the step is addMessage called with the id of a conversation that exists
AddsMessage == RepoCall /\ call'.op = "addMessage" /\ HasChat(chats, call'.arg)

\* the message a conversation has received last
LastMessage(c) == c.messages[Len(c.messages)]

\* the conversation has a message with role user
HasUserMessage(c) == \E k \in 1..Len(c.messages) : c.messages[k].role = "user"

\* a step other than a title edit leaves every title as it is, except that
\* addMessage sets the title of its conversation to the title derived from
\* the message exactly when Derives(old, message) holds
TitleFollows(Derives(_, _)) ==
  /\ AddsMessage =>
       LET old == getChat(chats, call'.arg)
           new == getChat(chats', call'.arg)
       IN new.title = IF Derives(old, LastMessage(new))
                      THEN generateTitle(LastMessage(new).content)
                      ELSE old.title
  /\ chats' # chats =>
       LET after == Range(chats')
       IN \A k \in 1..Len(chats) :
            (/\ chats[k] \notin after
             /\ HasChat(chats', chats[k].id)
             /\ getChat(chats', chats[k].id).title # chats[k].title) =>
               /\ RepoCall
               /\ call'.arg = chats[k].id
               /\ call'.op \in {"addMessage", "updateChat"}

----------------------------------------------------------------------------
(* Properties of the derived title, checked under TitleSpec *)

\* the text up to and including its first sentence terminator that is
\* followed by whitespace, the whole text if it has none
CutAtSentenceEnd(text) ==
  LET ends == { i \in 1..(Len(text) - 1) :
                  text[i] \in {".", "!", "?"} /\ text[i + 1] \in Whitespace }
  IN IF ends = {} THEN text
     ELSE SubSeq(text, 1, CHOOSE i \in ends : \A j \in ends : i <= j)

\* at most 50 characters: a longer text is its first 47 characters and "..."
AtMostFifty(text) ==
  IF Len(text) > 50 THEN SubSeq(text, 1, 47) \o <<".", ".", ".">> ELSE text

\* the title the claim describes for a text
DescribedTitle(text) ==
  LET t == AtMostFifty(CutAtSentenceEnd(text))
  IN IF t = <<>> THEN NewChatTitle ELSE t

\* the text without the whitespace it starts and ends with
Stripped(text) ==
  LET inked == { i \in 1..Len(text) : text[i] \notin Whitespace }
  IN IF inked = {} THEN <<>>
     ELSE SubSeq(text, CHOOSE i \in inked : \A j \in inked : i <= j,
                       CHOOSE i \in inked : \A j \in inked : i >= j)

\* the step derives a title: addMessage puts a first user message into a
\* conversation whose title is still "New Chat"
DerivesTitle ==
  /\ AddsMessage
  /\ getChat(chats, call'.arg).messages = <<>>
  /\ getChat(chats, call'.arg).title = NewChatTitle
  /\ LastMessage(getChat(chats', call'.arg)).role = "user"

\* what every derived title is, and what the three example texts give
TitleIs(Described(_)) ==
  DerivesTitle =>
    LET text == LastMessage(getChat(chats', call'.arg)).content
        title == getChat(chats', call'.arg).title
    IN /\ title = Described(text)
       /\ title # <<>>
       /\ Len(title) <= 50
       /\ text = HelloText => title = <<"H", "e", "l", "l", "o", ".">>
       /\ text = Rep("a", 80) => title = Rep("a", 47) \o <<".", ".", ".">>
       /\ text = <<>> => title = NewChatTitle

\* C23: for every message text the derived title is the text cut after the
\* first sentence terminator followed by whitespace (the whole text if there
\* is none), then shortened to 47 characters and "..." if longer than 50, and
\* "New Chat" if that is empty; it is never empty and never longer than 50.
C23_TitleOfText == [][TitleIs(DescribedTitle)]_vars

\* C23, amended: as C23, for the text without the whitespace it starts and
\* ends with.
C23_TitleOfStrippedText == [][TitleIs(LAMBDA text : DescribedTitle(Stripped(text)))]_vars

\* a conversation has the title of a first message of 80 letters
C23_Witness ==
  /\ call.op = "addMessage"
  /\ \E k \in 1..Len(chats) :
       /\ Len(chats[k].messages) = 1
       /\ chats[k].messages[1].content = Rep("a", 80)
       /\ chats[k].title = Rep("a", 47) \o <<".", ".", ".">>

----------------------------------------------------------------------------
(* Properties of the touched timestamp, checked under Spec *)

\* C24: every mutation of a conversation sets its touched timestamp to the
\* time of the mutation: a conversation that a step leaves in the collection
\* but not as it was (a message appended, the title edited, temperature or
\* topK changed) has the current time as its timestamp afterwards.
C24_MutationTouches ==
  [][\A k \in 1..Len(chats) :
       (/\ HasChat(chats', chats[k].id)
        /\ getChat(chats', chats[k].id) # chats[k]) =>
          getChat(chats', chats[k].id).timestamp = now]_vars

----------------------------------------------------------------------------
(* Properties of the reading operations and of restart, checked under       *)
(* ViewSpec                                                                  *)

\* the operations that take the id of a conversation
IdOps == {"getChat", "updateChat", "addMessage", "deleteChat", "setActiveChat",
          "exportChatAsMarkdown"}

\* the step is one of them called with an id that no conversation of the
\* collection has (null is the id of no conversation for all of them but
\* setActiveChat, which takes null for "none active")
CallsOnMissingId ==
  /\ RepoCall
  /\ call'.op \in IdOps
  /\ ~HasChat(chats, call'.arg)
  /\ call'.arg # Null \/ call'.op # "setActiveChat"

\* C25: every repository operation given an id that is not in the collection
\* returns an absence signal, does not throw, and leaves the collection in
\* memory, the active pointer and the durable store unchanged.
C25_MissingIdIsNoOp ==
  [][CallsOnMissingId =>
       /\ call'.returned = Null
       /\ call'.value = <<>>
       /\ ~call'.thrown
       /\ chats' = chats
       /\ activeChat' = activeChat
       /\ storedChats' = storedChats
       /\ storedActive' = storedActive]_vars

\* setActiveChat has been given an id that no conversation has, with
\* conversations in the collection and one of them active
C25_Witness ==
  /\ call.op = "setActiveChat"
  /\ call.arg # Null
  /\ ~HasChat(chats, call.arg)
  /\ call.returned = Null
  /\ chats # <<>>
  /\ activeChat # Null

\* C26: getActiveChat returns the conversation named by the active pointer
\* when one is set; when none is set and the collection is not empty it
\* returns the first conversation of the collection and makes it active;
\* when the collection is empty it returns none.
C26_ActiveOrFirstOrNone ==
  [][(RepoCall /\ call'.op = "getActiveChat") =>
       /\ chats' = chats
       /\ ~call'.thrown
       /\ IF activeChat # Null
          THEN /\ HasChat(chats, activeChat)
               /\ call'.returned = activeChat
               /\ activeChat' = activeChat
          ELSE IF chats # <<>>
          THEN /\ call'.returned = chats[1].id
               /\ activeChat' = chats[1].id
          ELSE /\ call'.returned = Null
               /\ activeChat' = Null]_vars

\* the first call on a repository constructed from a store of two
\* conversations was getActiveChat: the first of them is returned and active
C26_Witness ==
  /\ call.op = "getActiveChat"
  /\ call.n = 1
  /\ Len(chats) = 2
  /\ call.returned = chats[1].id
  /\ activeChat = chats[1].id

ExportOps == {"exportChatAsMarkdown", "exportClick", "copyClick"}

\* the Markdown text md is the one of conversation c: heading, created line
\* and rule, then per message, in order, its label, its content and a rule
IsMarkdownOf(md, c) ==
  /\ Len(md) = 3 + 3 * Len(c.messages)
  /\ md[1].kind = "heading" /\ md[1].text = c.title
  /\ md[2].kind = "created" /\ md[2].time = c.timestamp
  /\ md[3].kind = "rule"
  /\ \A k \in 1..Len(c.messages) :
       /\ md[3 * k + 1].kind = "label"
       /\ md[3 * k + 1].text = IF c.messages[k].role = "user" THEN You ELSE Assistant
       /\ md[3 * k + 2].kind = "body"
       /\ md[3 * k + 2].text = c.messages[k].content
       /\ md[3 * k + 3].kind = "rule"

\* C27: the Markdown export of a conversation is the title heading, the
\* creation-time line and a rule, then one role-labelled block per message
\* in message order, each followed by a rule (no block for a conversation
\* without messages); exporting changes no state, and the export button and
\* the copy button both yield that text, of the active conversation.
C27_ExportIsHeaderAndBlocks ==
  [][(RepoCall /\ call'.op \in ExportOps /\ call'.returned # Null) =>
       /\ HasChat(chats, call'.returned)
       /\ IsMarkdownOf(call'.value, getChat(chats, call'.returned))
       /\ call'.op \in {"exportClick", "copyClick"} =>
            call'.returned = IF activeChat # Null THEN activeChat ELSE chats[1].id
       /\ chats' = chats
       /\ storedChats' = storedChats
       /\ storedActive' = storedActive
       /\ (activeChat # Null \/ call'.op = "exportChatAsMarkdown") =>
            activeChat' = activeChat]_vars

\* the copy button has yielded the text of a conversation of two messages,
\* one of the user and one of the assistant
C27_Witness ==
  /\ call.op = "copyClick"
  /\ Len(call.value) = 9
  /\ call.value[4].text = You
  /\ call.value[7].text = Assistant

\* C30: on restart the conversation that becomes active is the one whose id
\* was last persisted as the active conversation, whenever that conversation
\* is still in the persisted collection.
C30_RestartRestoresActive ==
  [][(/\ RepoCall
      /\ call'.op = "startup"
      /\ HasChat(loadChatHistory(storedChats).chats, storedActive)) =>
       activeChat' = storedActive]_vars

----------------------------------------------------------------------------
(* Properties of the grouping by age, checked under GroupSpec *)

\* the five buckets of the claim, by age
InBucket(n, age) ==
  CASE n = 1 -> age < oneDay
    [] n = 2 -> oneDay <= age /\ age < 2 * oneDay
    [] n = 3 -> 2 * oneDay <= age /\ age < 7 * oneDay
    [] n = 4 -> 7 * oneDay <= age /\ age < 30 * oneDay
    [] n = 5 -> 30 * oneDay <= age

\* the keys of the repository's and of the history list's groups, by bucket
RepoKeyOf == <<"today", "yesterday", "last7days", "last30days", "older">>
UiKeyOf == <<"Chats", "Yesterday", "Previous 7 days", "Previous 30 days", "Older">>

\* the ids of the conversations of bucket n, in collection order
IdsInBucket(cs, n, t) ==
  LET picked == SelectSeq(cs, LAMBDA c : InBucket(n, t - c.timestamp))
  IN [k \in 1..Len(picked) |-> picked[k].id]

\* C28: grouping places every conversation in exactly one of five buckets
\* decided by its age (under 1 day, 1 to 2 days, 2 to 7 days, 7 to 30 days,
\* 30 days or more), in the relative order of the collection within each
\* bucket; the repository's grouping and the history list's assign every
\* conversation to corresponding buckets.
C28_GroupsByAgeInOrder ==
  [][/\ (RepoCall /\ call'.op = "getChatsByDate") =>
          /\ DOMAIN call'.value = GroupKeys
          /\ \A n \in 1..5 : call'.value[RepoKeyOf[n]] = IdsInBucket(chats, n, now)
          /\ call'.value = [key \in GroupKeys |->
                LET n == CHOOSE m \in 1..5 : RepoKeyOf[m] = key
                IN groupChatsByDate(chats, now)[UiKeyOf[n]]]
     /\ (RepoCall /\ call'.op = "groupChatsByDate") =>
          /\ DOMAIN call'.value = UiGroupKeys
          /\ \A n \in 1..5 : call'.value[UiKeyOf[n]] = IdsInBucket(chats, n, now)
     /\ \A c \in Range(chats) :
          Cardinality({ n \in 1..5 : InBucket(n, now - c.timestamp) }) = 1]_vars

\* three conversations have been grouped: one exactly a day old, which is
\* yesterday's, and two older than 30 days, in the order of the collection
C28_Witness ==
  /\ call.op = "getChatsByDate"
  /\ Len(chats) = 3
  /\ now - chats[1].timestamp = oneDay
  /\ call.value["yesterday"] = <<chats[1].id>>
  /\ call.value["older"] = <<chats[2].id, chats[3].id>>

----------------------------------------------------------------------------
(* Properties of a page without the host model, checked under Spec *)

\* no session has been created, no prompt sent, no conversation or message
\* created or persisted
NothingDone ==
  /\ handles = <<>>
  /\ session = Null
  /\ invs = <<>>
  /\ chats = <<>>
  /\ storedChats = Absent
  /\ storedActive = AbsentId

\* C29: if the host model capability is absent at start-up, then in every
\* later state no session has been created, no prompt has been sent, and no
\* conversation or message has been created or persisted: the page stays
\* as it is until it is closed, and nothing changes on the way or after.
C29_UnavailableDoesNothing ==
  /\ [](phase = "unavailable" => NothingDone)
  /\ [][phase = "unavailable" =>
          /\ phase' \in {"unavailable", "unloaded"}
          /\ NothingDone']_vars
  /\ [][phase = "unloaded" => phase' = "unloaded"]_vars

\* time has passed on a page that found no host model
C29_Witness ==
  /\ phase = "unavailable"
  /\ now > 0
  /\ NothingDone

----------------------------------------------------------------------------
(* Properties of overlapping prompts, checked under Spec *)

\* the promptModel invocations the step starts
NewInvs == (Len(invs) + 1)..Len(invs')

\* the number of messages of a role in a conversation
CountOf(role, msgs) == Cardinality({ k \in 1..Len(msgs) : msgs[k].role = role })

\* the step leaves conversation id with more assistant messages than it had
GainsAssistant(id) ==
  CountOf("assistant", getChat(chats', id).messages)
    > (IF HasChat(chats, id) THEN CountOf("assistant", getChat(chats, id).messages) ELSE 0)

\* C31: an assistant message is only ever appended to the conversation that
\* was active when its prompt was submitted (the invocation keeps that
\* conversation's id until it ends), also when another conversation has become
\* active before the stream finished; if that conversation was deleted in the
\* meantime, nothing is appended to any conversation.
C31_AssistantGoesToSubmittingChat ==
  [][/\ \A i \in NewInvs : invs'[i].chat # Null /\ invs'[i].chat = activeChat'
     /\ \A i \in Invs : invs'[i].pc # "gone" => invs'[i].chat = invs[i].chat
     /\ \A id \in Ids(chats') :
          GainsAssistant(id) =>
            \E i \in Invs :
              /\ EndsStream(i)
              /\ invs[i].chat = id
              /\ HasChat(chats, id)
              /\ getChat(chats', id).messages
                   = Append(getChat(chats, id).messages, AssistantMessage(invs[i]))
     /\ \A i \in Invs :
          (EndsStream(i) /\ ~HasChat(chats, invs[i].chat)) =>
            MessagesOf(chats') = MessagesOf(chats)]_vars

\* a stream has ended while another conversation was active: its text is the
\* last message of the conversation of its prompt, and the active conversation
\* holds no assistant message
C31_Witness ==
  \E i \in Invs :
    /\ invs[i].pc = "done"
    /\ invs[i].away
    /\ HasChat(chats, invs[i].chat)
    /\ HasChat(chats, activeChat)
    /\ activeChat # invs[i].chat
    /\ CountOf("assistant", getChat(chats, invs[i].chat).messages) = 1
    /\ CountOf("assistant", getChat(chats, activeChat).messages) = 0

\* C32: when several session creations have been pending at once, then once
\* all of them have resolved the script holds the handle requested last,
\* whatever the order in which they resolved, and every other handle created
\* has been destroyed.
C32_LastRequestedWins ==
  (/\ phase = "ready"
   /\ Len(handles) >= 2
   /\ \A h \in Handles : handles[h].status \in {"live", "destroyed"}) =>
    /\ session = Len(handles)
    /\ \A h \in Handles : h # Len(handles) => handles[h].status = "destroyed"

\* C33: no prompt is ever started on a handle that has already been
\* destroyed: the handle the script references is never a destroyed one (a
\* step that destroys a handle drops the reference), a prompt submitted while
\* a handle is referenced starts on that handle, and a prompt submitted while
\* none is referenced first requests a new one, waits for it and starts on it.
C33_NoPromptOnDestroyedHandle ==
  /\ [](session # Null => handles[session].status = "live")
  /\ [][/\ \A h \in DestroyedNow : session' # h
        /\ \A i \in 1..Len(invs') :
             StartsStream(i) =>
               LET h == invs'[i].handle
               IN /\ h # Null
                  /\ handles'[h].status = "live"
                  /\ h \in Handles => handles[h].status # "destroyed"
        /\ \A i \in NewInvs :
             IF session = Null
             THEN /\ invs'[i].pc = "awaitSession"
                  /\ NewHandles = {Len(handles')}
                  /\ handles'[Len(handles')].status = "pending"
                  /\ handles'[Len(handles')].waiter = i
             ELSE /\ invs'[i].pc = "streaming"
                  /\ invs'[i].handle = session
                  /\ NewHandles = {}
        /\ \A i \in Invs :
             (invs[i].pc = "awaitSession" /\ StartsStream(i)) =>
               /\ handles[invs'[i].handle].status = "pending"
               /\ handles[invs'[i].handle].waiter = i]_vars

\* a handle has been destroyed, and a prompt submitted afterwards streams on
\* a later handle, which is live and is the one the script references
C33_Witness ==
  \E i \in Invs, k \in Handles :
    /\ invs[i].pc = "streaming"
    /\ session = invs[i].handle
    /\ handles[session].status = "live"
    /\ handles[k].status = "destroyed"
    /\ k < session

\* the user message of invocation inv is in its conversation in collection cs
HoldsPromptOf(cs, inv) ==
  /\ HasChat(cs, inv.chat)
  /\ \E k \in 1..Len(getChat(cs, inv.chat).messages) :
       /\ getChat(cs, inv.chat).messages[k].role = "user"
       /\ getChat(cs, inv.chat).messages[k].content = inv.prompt

\* the step in which the session creation awaited by invocation i fails
FailsCreation(i) ==
  invs[i].pc = "awaitSession" /\ invs'[i].pc \in {"error", "crashed"}

UserLeads(msgs) ==
  \A n \in 0..Len(msgs) :
    CountOf("user", SubSeq(msgs, 1, n)) >= CountOf("assistant", SubSeq(msgs, 1, n))

\* C35: in every reachable state and for every conversation, in memory and in
\* the store, every prefix of the message sequence contains at least as many
\* user messages as assistant messages, also when prompts overlap or fail.
C35_UserBeforeAssistant ==
  /\ \A k \in 1..Len(chats) : UserLeads(chats[k].messages)
  /\ (storedChats # Absent /\ storedChats # Corrupt) =>
       \A k \in 1..Len(storedChats) : UserLeads(storedChats[k].messages)

\* two prompts overlapped in one conversation: both user messages precede the
\* one reply; the other prompt has failed
C35_Witness ==
  \E i, j \in Invs :
    /\ invs[i].pc = "done"
    /\ invs[j].pc \in {"error", "crashed"}
    /\ invs[i].chat = invs[j].chat
    /\ HasChat(chats, invs[i].chat)
    /\ LET m == getChat(chats, invs[i].chat).messages
       IN /\ Len(m) = 3
          /\ m[1].role = "user"
          /\ m[2].role = "user"
          /\ m[3].role = "assistant"

----------------------------------------------------------------------------
(* Properties of the persisted active id and of the collection order *)

\* the ids of the conversations the store holds
StoredIds ==
  IF storedChats = Absent \/ storedChats = Corrupt THEN {} ELSE Ids(storedChats)

\* C36: after every repository operation, the active conversation id held in
\* the durable store, when one is held, is the id of a conversation of the
\* persisted collection.
C36_StoredActiveIsStored ==
  [][RepoCall =>
       (storedActive' \notin {AbsentId, Null} => storedActive' \in StoredIds')]_vars

\* conversation id of collection cs was touched no earlier than any other
MostRecent(cs, id) ==
  /\ HasChat(cs, id)
  /\ \A k \in 1..Len(cs) : cs[k].timestamp <= getChat(cs, id).timestamp

\* the conversations a call leaves in memory, given the ones before it
KeptInMemory ==
  IF call'.op = "createNewChat"
  THEN Len(chats') = Len(chats) + 1 /\ Ids(chats') = Ids(chats) \cup {nextId}
  ELSE IF call'.op = "deleteChat"
  THEN Len(chats') = Len(chats) - 1 /\ Ids(chats') = Ids(chats) \ {call'.arg}
  ELSE Len(chats') = Len(chats) /\ Ids(chats') = Ids(chats)

\* C37: after every operation that saves the collection, the collection in
\* memory is ordered by touched timestamp, most recent first, and the save has
\* removed no conversation from it (also when the store keeps fewer); hence
\* the collection of a repository is ordered in every state, and the first
\* conversation taken by the lazy active default and by the deletion of the
\* active conversation is a most recently touched one.
C37_MemorySortedBySave ==
  /\ [](phase = "repo" => IsSortedDesc(chats))
  /\ [][/\ (RepoCall /\ call'.op \in MutatingOps /\ call'.attempts > 0) =>
             (IsSortedDesc(chats') /\ KeptInMemory)
        /\ (RepoCall /\ call'.op = "getActiveChat" /\ activeChat = Null /\ chats # <<>>) =>
             (activeChat' = chats[1].id /\ MostRecent(chats, activeChat'))
        /\ (/\ RepoCall
            /\ call'.op = "deleteChat"
            /\ activeChat # Null
            /\ call'.arg = activeChat
            /\ HasChat(chats, activeChat)
            /\ Len(chats) > 1) =>
             (activeChat' = chats'[1].id /\ MostRecent(chats', activeChat'))]_vars

\* a message has been added to the oldest of 50 conversations: the save has
\* moved it to the front in memory; the write failed on the quota and the
\* retry stored 25 conversations, and memory still holds all 50
C37_Witness ==
  /\ phase = "repo"
  /\ call.op = "addMessage"
  /\ call.failures > 0
  /\ call.written
  /\ Len(chats) = MAX_CHATS
  /\ chats[1].id = MAX_CHATS
  /\ IsSortedDesc(chats)
  /\ Len(storedChats) = MAX_CHATS \div 2

----------------------------------------------------------------------------
(* Properties of the deletion of a conversation in the page, checked under *)
(* ReloadSpec                                                               *)

\* C38: deleting a conversation that is not the active one leaves the active
\* pointer, every other conversation (title, settings, messages, timestamp,
\* and its place in the collection) and the referenced session handle
\* unchanged, and creates or destroys no handle.
C38_DeleteInactiveTouchesNothingElse ==
  [][\A id \in Ids(chats) :
       (DeleteChatClick(id, TRUE) /\ activeChat # id) =>
         /\ activeChat' = activeChat
         /\ chats' = RemoveAt(chats, IndexOf(chats, id))
         /\ session' = session
         /\ handles' = handles
         /\ invs' = invs]_vars

\* conversation 2 has been deleted and a prompt is streaming in the active
\* conversation 1: conversation 1 with its messages, the pointer, the live
\* handle and the stream are there, no conversation was created and no handle
\* destroyed
C38_Witness ==
  /\ phase = "ready"
  /\ Ids(chats) = {1}
  /\ nextId = 3
  /\ activeChat = 1
  /\ Len(chats[1].messages) = 2
  /\ session # Null
  /\ handles[session].status = "live"
  /\ \A h \in Handles : handles[h].status # "destroyed"
  /\ \E i \in Invs : invs[i].pc = "streaming" /\ invs[i].chat = 1 /\ invs[i].handle = session

\* C39: when the user confirms the deletion of the active conversation, the
\* step ends with a newly created conversation without messages being the
\* active one, also when other conversations remain (which stay as they
\* are); the handle the script referenced has been destroyed and a session
\* has been requested for the new conversation; when the user declines,
\* nothing changes.
C39_DeleteActiveStartsNewChat ==
  [][\A id \in Ids(chats) :
       /\ (DeleteChatClick(id, TRUE) /\ activeChat = id) =>
            /\ activeChat' = nextId
            /\ nextId \notin Ids(chats)
            /\ HasChat(chats', nextId)
            /\ getChat(chats', nextId).messages = <<>>
            /\ Others(chats', nextId) = Others(chats, id)
            /\ session # Null => handles'[session].status = "destroyed"
            /\ DestroyedNow = IF session # Null THEN {session} ELSE {}
            /\ session' = Null
            /\ NewHandles = {Len(handles')}
            /\ handles'[Len(handles')].status = "pending"
            /\ handles'[Len(handles')].chat = nextId
       /\ DeleteChatClick(id, FALSE) => UNCHANGED vars]_vars

\* the active conversation 1 has been deleted while conversation 2 remained:
\* the new conversation 3 is active and empty, conversation 2 is as it was
\* stored, the handle held before is destroyed and one is pending for 3
C39_Witness ==
  /\ phase = "ready"
  /\ Ids(chats) = {2, 3}
  /\ activeChat = 3
  /\ getChat(chats, 3).messages = <<>>
  /\ getChat(chats, 2) = StoredChat(2)
  /\ session = Null
  /\ \E h \in Handles : handles[h].status = "destroyed" /\ handles[h].chat = 1
  /\ handles[Len(handles)].status = "pending"
  /\ handles[Len(handles)].chat = 3

====
